---------------------------- MODULE Spec2Model ----------------------------
(***************************************************************************)
(* State-machine model of src/src/components/PresentationTab.tsx: the      *)
(* React component PresentationTab, its useState cells, the async handler  *)
(* generatePresentation, exportPresentation and the inline click handlers. *)
(*                                                                         *)
(* Conventions.                                                            *)
(*  - A JavaScript string is a tuple of one-character strings, so that     *)
(*    trim(), replace() and template literals are computed, not assumed.   *)
(*  - A nullable or optional value is Null (absent, null, undefined) or    *)
(*    Some(v).                                                             *)
(*  - The browser runs one handler at a time (single event loop), and      *)
(*    React commits the state a handler sets before the next event is      *)
(*    dispatched, so every handler step is one atomic action.  The two     *)
(*    awaits of generatePresentation (fetch, response.json) are the only   *)
(*    places where other actions interleave.                               *)
(*  - A control is clickable only when it is rendered and not disabled.    *)
(*    The one exception: a named handler that re-checks a rendering        *)
(*    condition itself (generatePresentation re-checks the session,        *)
(*    exportPresentation re-checks the deck) is invocable with that        *)
(*    condition false, so that its own guard is what the model exercises.  *)
(*  - toasts and downloads are output channels: what the most recent       *)
(*    handler step emitted.                                                *)
(*  - last is a history variable (the program does not read it): the most  *)
(*    recent handler step, the input it consumed, currentSlide before it,  *)
(*    the HTTP status of the response whose body it handled, and, when the *)
(*    step ended a generatePresentation call, the number of notifications  *)
(*    that call emitted from start to end.                                 *)
(***************************************************************************)
EXTENDS Integers, Sequences, FiniteSets, TLC

VARIABLES
    sessionActive,    \* state.session.active (useApp context, external)
    isGenerating,     \* useState(false)
    presentation,     \* useState<PresentationData | null>(null)
    currentSlide,     \* useState(0)
    presentationUrl,  \* useState<string | null>(null)
    fallbackUsed,     \* useState(false)
    formData,         \* useState({ topic: '', slideCount: 8 })
    inflight,         \* generatePresentation calls suspended at an await
    toasts,           \* notifications emitted by the most recent step
    downloads,        \* file downloads triggered by the most recent step
    last              \* the most recent handler step and its input

vars ==
    <<sessionActive, isGenerating, presentation, currentSlide, presentationUrl,
      fallbackUsed, formData, inflight, toasts, downloads, last>>

store == <<presentation, presentationUrl, fallbackUsed, currentSlide>>

-----------------------------------------------------------------------------
(* Bounds of the model *)

\* longest slide list a response carries
MaxSlides == 3

-----------------------------------------------------------------------------
(* Values *)

Null == <<>>

Some(v) == <<v>>

Max(a, b) == IF a >= b THEN a ELSE b

Min(a, b) == IF a <= b THEN a ELSE b

DocRequiredText ==
    <<"P","l","e","a","s","e"," ","u","p","l","o","a","d"," ","a"," ","P","D","F"," ","d","o","c","u","m","e","n","t"," ","f","i","r","s","t">>

BasicModeText ==
    <<"P","r","e","s","e","n","t","a","t","i","o","n"," ","c","r","e","a","t","e","d"," ","i","n"," ","b","a","s","i","c"," ","m","o","d","e"," ","(","A","I"," ","q","u","o","t","a"," ","e","x","c","e","e","d","e","d",")">>

GeneratedText ==
    <<"P","r","e","s","e","n","t","a","t","i","o","n"," ","g","e","n","e","r","a","t","e","d"," ","s","u","c","c","e","s","s","f","u","l","l","y","!">>

FailedText ==
    <<"F","a","i","l","e","d"," ","t","o"," ","g","e","n","e","r","a","t","e"," ","p","r","e","s","e","n","t","a","t","i","o","n">>

ExportedText ==
    <<"P","r","e","s","e","n","t","a","t","i","o","n"," ","e","x","p","o","r","t","e","d"," ","a","s"," ","M","a","r","k","d","o","w","n","!">>

DefaultTitle ==
    <<"G","e","n","e","r","a","t","e","d"," ","P","r","e","s","e","n","t","a","t","i","o","n">>

Professional ==
    <<"p","r","o","f","e","s","s","i","o","n","a","l">>

SuccessStatus ==
    <<"s","u","c","c","e","s","s">>

DefaultSession ==
    <<"d","e","f","a","u","l","t">>

BasicModeDuration == 6000

InitialSlideCount == 8

SliderMin == 3

SliderMax == 15

\* toast.error(text)
ToastError(text) == [type |-> "error", message |-> text, duration |-> Null]

\* toast.success(text)
ToastSuccess(text) == [type |-> "success", message |-> text, duration |-> Null]

\* toast.success(text, { duration })
ToastSuccessFor(text, ms) ==
    [type |-> "success", message |-> text, duration |-> Some(ms)]

-----------------------------------------------------------------------------
(* Inputs: what the user types, what the service and the transport return *)

ErrorStatus == <<"e","r","r","o","r">>

QuotaExceeded ==
    <<"q","u","o","t","a"," ","e","x","c","e","e","d","e","d">>

FailedToFetch ==
    <<"F","a","i","l","e","d"," ","t","o"," ","f","e","t","c","h">>

UnexpectedToken ==
    <<"U","n","e","x","p","e","c","t","e","d"," ","t","o","k","e","n">>

NullDeref ==
    <<"d","a","t","a"," ","i","s"," ","n","u","l","l">>

DeckUrl == <<"/","d",".","p","p","t","x">>

TitleQ3 == <<"Q","3"," "," ","P","l","a","n">>

\* topics typed into the form: empty, blank, padded
Topics == { <<>>, <<" "," ">>, <<" ","A","I"," ">> }

\* positions of the range input used by the model
SliderValues == {SliderMin, InitialSlideCount, SliderMax}

\* more topics: inner space, leading tab, nothing to trim, trailing newline
FormTopics ==
    Topics \cup { <<"A"," ","I">>, <<"\t","A","I">>, <<"A","I">>,
                  <<" ","A"," "," ","I","\n">> }

\* every position of the range input (min="3" max="15", step 1)
SliderPositions == SliderMin..SliderMax

SlideOf(n) ==
    [title |-> <<"S">>, content |-> [i \in 1..(n % 3) |-> <<"b">>]]

\* the slide lists a response carries: n slides, 0 <= n <= MaxSlides
SlideLists == { [i \in 1..n |-> SlideOf(i)] : n \in 0..MaxSlides }

Opt(S) == {Null} \cup {Some(v) : v \in S}

\* the slide_count values a response carries; the service reports the
\* count and the list as separate fields, so every pairing is an input
SlideCounts == 0..(MaxSlides + 1)

\* bodies whose status is "success": every pairing of slide list, count and
\* fallback flag (each may be absent) with a title and a URL, and every
\* pairing of title, URL (each may be absent or the empty string) and
\* fallback flag with the longest list and its count, and the body that
\* carries nothing but its status
SuccessResponses ==
    [status : {SuccessStatus},
     message : {Null},
     presentation_url : {Some(DeckUrl)},
     slides : Opt(SlideLists),
     slide_count : Opt(SlideCounts),
     fallback_used : Opt(BOOLEAN),
     title : {Some(TitleQ3)}]
    \cup
    [status : {SuccessStatus},
     message : {Null},
     presentation_url : Opt({DeckUrl, <<>>}),
     slides : {Some([i \in 1..MaxSlides |-> SlideOf(i)])},
     slide_count : {Some(MaxSlides)},
     fallback_used : {Some(TRUE), Some(FALSE)},
     title : Opt({TitleQ3, <<>>})]
    \cup
    [status : {SuccessStatus},
     message : {Null},
     presentation_url : {Null},
     slides : {Null},
     slide_count : {Null},
     fallback_used : {Null},
     title : {Null}]

\* bodies whose status is not "success" (an error status, or none at all);
\* they may still carry slides
FailureResponses ==
    [status : {ErrorStatus, Null},
     message : Opt({QuotaExceeded, <<>>}),
     presentation_url : Opt({DeckUrl}),
     slides : {Null, Some([i \in 1..1 |-> SlideOf(i)])},
     slide_count : {Null, Some(1)},
     fallback_used : {Null},
     title : {Null}]

Responses == SuccessResponses \cup FailureResponses

\* HTTP status of the response; generatePresentation never reads it
HttpStatuses == {200, 500}

\* what fetch() rejects with (a TypeError; it has no .response)
FetchErrors ==
    { [response |-> Null, message |-> FailedToFetch],
      [response |-> Null, message |-> <<>>] }

\* what response.json() rejects with on a malformed body, and the TypeError
\* of reading data.status when the body is the JSON value null
JsonErrors ==
    { [response |-> Null, message |-> UnexpectedToken],
      [response |-> Null, message |-> NullDeref] }

-----------------------------------------------------------------------------
(* generatePresentation: the pure parts *)

IsSpace(c) == c \in {" ", "\t", "\n", "\r"}

RECURSIVE TrimStart(_)
TrimStart(s) ==
    IF s # <<>> /\ IsSpace(Head(s)) THEN TrimStart(Tail(s)) ELSE s

RECURSIVE TrimEnd(_)
TrimEnd(s) ==
    IF s # <<>> /\ IsSpace(s[Len(s)])
    THEN TrimEnd(SubSeq(s, 1, Len(s) - 1))
    ELSE s

\* String.prototype.trim
Trim(s) == TrimEnd(TrimStart(s))

\* variant: the topic is sent as typed
RequestData_rawTopic(fd) ==
    [session_id |-> DefaultSession,
     topic |-> Some(fd.topic),
     max_slides |-> fd.slideCount]

\* requestData; JSON.stringify drops a key whose value is undefined
RequestData(fd) ==
    [session_id |-> DefaultSession,
     topic |-> IF Trim(fd.topic) = <<>> THEN Null ELSE Some(Trim(fd.topic)),
     max_slides |-> fd.slideCount]

\* variant: every status but "error" counts as success
IsSuccess_notError(data) == data.status # <<"e","r","r","o","r">>

\* variant: the status of the body is not looked at
IsSuccess_anyStatus(data) == TRUE

\* data.status === 'success'
IsSuccess(data) == data.status = SuccessStatus

\* data.fallback_used as a condition
FallbackTruthy(data) == data.fallback_used # Null /\ data.fallback_used[1]

\* variant: a deck made in fallback mode gets a theme of its own
BuildDeck_themeByFallback(data) ==
    [title |-> IF data.title = Null \/ data.title[1] = <<>>
               THEN DefaultTitle ELSE data.title[1],
     slides |-> IF data.slides = Null THEN <<>> ELSE data.slides[1],
     total_slides |-> IF data.slide_count = Null THEN 0
                      ELSE data.slide_count[1],
     theme |-> IF data.fallback_used = Some(TRUE)
               THEN <<"b","a","s","i","c">> ELSE Professional]

\* variant: total_slides counted from the slide list
BuildDeck_countFromList(data) ==
    [title |-> IF data.title = Null \/ data.title[1] = <<>>
               THEN DefaultTitle ELSE data.title[1],
     slides |-> IF data.slides = Null THEN <<>> ELSE data.slides[1],
     total_slides |-> IF data.slides = Null THEN 0 ELSE Len(data.slides[1]),
     theme |-> Professional]

\* the object passed to setPresentation
BuildDeck(data) ==
    [title |-> IF data.title = Null \/ data.title[1] = <<>>
               THEN DefaultTitle ELSE data.title[1],
     slides |-> IF data.slides = Null THEN <<>> ELSE data.slides[1],
     total_slides |-> IF data.slide_count = Null THEN 0
                      ELSE data.slide_count[1],
     theme |-> Professional]

\* data.presentation_url || null
BuildUrl(data) ==
    IF data.presentation_url = Null \/ data.presentation_url[1] = <<>>
    THEN Null ELSE Some(data.presentation_url[1])

\* variant: setCurrentSlide(0) left out
StoreAfterData_keepCursor(data) ==
    IF IsSuccess(data)
    THEN <<Some(BuildDeck(data)), BuildUrl(data), FallbackTruthy(data),
           currentSlide>>
    ELSE store

\* the four cells after the response body is handled, as
\* <<presentation, presentationUrl, fallbackUsed, currentSlide>>
StoreAfterData(data) ==
    IF IsSuccess(data)
    THEN <<Some(BuildDeck(data)), BuildUrl(data), FallbackTruthy(data), 0>>
    ELSE store

\* variant: a failure always shows the generic text
NoticeForData_genericOnly(data) ==
    IF IsSuccess(data)
    THEN IF FallbackTruthy(data)
         THEN ToastSuccessFor(BasicModeText, BasicModeDuration)
         ELSE ToastSuccess(GeneratedText)
    ELSE ToastError(FailedText)

\* variant: the degraded-mode branch left out
NoticeForData_noFallback(data) ==
    IF IsSuccess(data)
    THEN ToastSuccess(GeneratedText)
    ELSE ToastError(IF data.message = Null \/ data.message[1] = <<>>
                    THEN FailedText ELSE data.message[1])

\* the notification for a response body
NoticeForData(data) ==
    IF IsSuccess(data)
    THEN IF FallbackTruthy(data)
         THEN ToastSuccessFor(BasicModeText, BasicModeDuration)
         ELSE ToastSuccess(GeneratedText)
    ELSE ToastError(IF data.message = Null \/ data.message[1] = <<>>
                    THEN FailedText ELSE data.message[1])

\* errorMessage of the catch block
ErrorMessage(error) ==
    IF error.response # Null /\ error.response[1] # <<>>
    THEN error.response[1]
    ELSE IF error.message # <<>> THEN error.message ELSE FailedText

\* variant: the session check left out
PreconditionFails_never == FALSE

\* !state.session.active
PreconditionFails == ~sessionActive

\* variant: the Generate button is shown beside a presentation too
GenerateShown_always == TRUE

\* the Generate button is part of the form, the branch of
\* '!presentation ? ... : ...' taken when there is no presentation
GenerateShown == presentation = Null

\* variant: the Generate button is never disabled
GenerateDisabled_never == FALSE

\* disabled={isGenerating} on the Generate button
GenerateDisabled == isGenerating

\* variant: setIsGenerating(false) at the end of the try block instead of
\* in a finally block, so that a thrown error skips it
GeneratingAfterSettle_tryOnly(outcome) == outcome = "throw"

\* isGenerating after the call settles with outcome ("data": the body was
\* handled, "throw": the catch block ran): the finally block sets it false
GeneratingAfterSettle(outcome) == FALSE

\* the record of a handler step (see last)
Step(op, input, http, call) ==
    [op |-> op, input |-> input, cursor |-> currentSlide, http |-> http,
     call |-> call]

\* s without its i-th element
RemoveAt(s, i) == SubSeq(s, 1, i - 1) \o SubSeq(s, i + 1, Len(s))

-----------------------------------------------------------------------------
Init ==
    /\ sessionActive \in BOOLEAN
    /\ isGenerating = FALSE
    /\ presentation = Null
    /\ currentSlide = 0
    /\ presentationUrl = Null
    /\ fallbackUsed = FALSE
    /\ formData = [topic |-> <<>>, slideCount |-> InitialSlideCount]
    /\ inflight = <<>>
    /\ toasts = <<>>
    /\ downloads = <<>>
    /\ last = [op |-> "init", input |-> Null, cursor |-> 0, http |-> Null,
               call |-> Null]

\* the component renders more than the "upload required" placeholder
Rendered == sessionActive

\* the external document session starts or ends
SessionChange ==
    /\ sessionActive' = ~sessionActive
    /\ toasts' = <<>>
    /\ downloads' = <<>>
    /\ last' = Step("session", Null, Null, Null)
    /\ UNCHANGED <<isGenerating, presentation, currentSlide, presentationUrl,
                   fallbackUsed, formData, inflight>>

\* the generation form is shown: a session, and no presentation
FormShown == Rendered /\ presentation = Null

\* onChange of the topic input, for the topics of set T
SetTopicFrom(T) ==
    /\ FormShown
    /\ ~isGenerating
    /\ \E t \in T :
          /\ formData' = [formData EXCEPT !.topic = t]
          /\ last' = Step("topic", t, Null, Null)
    /\ toasts' = <<>>
    /\ downloads' = <<>>
    /\ UNCHANGED <<sessionActive, isGenerating, presentation, currentSlide,
                   presentationUrl, fallbackUsed, inflight>>

SetTopic == SetTopicFrom(Topics)

\* onChange of the range input, for the positions of set P
SetSlideCountFrom(P) ==
    /\ FormShown
    /\ ~isGenerating
    /\ \E n \in P :
          /\ formData' = [formData EXCEPT !.slideCount = n]
          /\ last' = Step("slider", n, Null, Null)
    /\ toasts' = <<>>
    /\ downloads' = <<>>
    /\ UNCHANGED <<sessionActive, isGenerating, presentation, currentSlide,
                   presentationUrl, fallbackUsed, inflight>>

SetSlideCount == SetSlideCountFrom(SliderValues)

\* generatePresentation up to its first await
Generate ==
    /\ GenerateShown
    /\ ~GenerateDisabled
    /\ downloads' = <<>>
    /\ IF PreconditionFails
       THEN /\ toasts' = <<ToastError(DocRequiredText)>>
            /\ last' = Step("generate", Null, Null, Some(Len(toasts')))
            /\ UNCHANGED <<isGenerating, inflight>>
       ELSE /\ isGenerating' = TRUE
            /\ inflight' = Append(inflight,
                  [phase |-> "fetch", body |-> RequestData(formData),
                   http |-> Null, notices |-> 0])
            /\ toasts' = <<>>
            /\ last' = Step("generate", Null, Null, Null)
    /\ UNCHANGED <<sessionActive, presentation, currentSlide, presentationUrl,
                   fallbackUsed, formData>>

\* the catch block followed by the finally block, for call i
Caught(i, error) ==
    /\ toasts' = <<ToastError(ErrorMessage(error))>>
    /\ isGenerating' = GeneratingAfterSettle("throw")
    /\ inflight' = RemoveAt(inflight, i)
    /\ UNCHANGED <<presentation, currentSlide, presentationUrl, fallbackUsed>>

\* await fetch(...) settles: a response, or a rejection
FetchSettles ==
    /\ \E i \in 1..Len(inflight) :
          /\ inflight[i].phase = "fetch"
          /\ \E r \in [kind : {"response"}, http : HttpStatuses]
                      \cup [kind : {"throw"}, error : FetchErrors] :
                /\ IF r.kind = "throw"
                   THEN /\ Caught(i, r.error)
                        /\ last' = Step("fetch", r, Null,
                              Some(inflight[i].notices + Len(toasts')))
                   ELSE /\ inflight' = [inflight EXCEPT
                              ![i] = [@ EXCEPT !.phase = "json",
                                                !.http = Some(r.http)]]
                        /\ toasts' = <<>>
                        /\ last' = Step("fetch", r, Null, Null)
                        /\ UNCHANGED <<isGenerating, presentation,
                                       currentSlide, presentationUrl,
                                       fallbackUsed>>
    /\ downloads' = <<>>
    /\ UNCHANGED <<sessionActive, formData>>

\* await response.json() settles, and the rest of the try block runs
JsonSettles ==
    /\ \E i \in 1..Len(inflight) :
          /\ inflight[i].phase = "json"
          /\ \E r \in [kind : {"data"}, data : Responses]
                      \cup [kind : {"throw"}, error : JsonErrors] :
                /\ IF r.kind = "throw"
                   THEN Caught(i, r.error)
                   ELSE /\ presentation' = StoreAfterData(r.data)[1]
                        /\ presentationUrl' = StoreAfterData(r.data)[2]
                        /\ fallbackUsed' = StoreAfterData(r.data)[3]
                        /\ currentSlide' = StoreAfterData(r.data)[4]
                        /\ toasts' = <<NoticeForData(r.data)>>
                        /\ isGenerating' = GeneratingAfterSettle("data")
                        /\ inflight' = RemoveAt(inflight, i)
                /\ last' = Step("json", r, inflight[i].http,
                      Some(inflight[i].notices + Len(toasts')))
    /\ downloads' = <<>>
    /\ UNCHANGED <<sessionActive, formData>>

-----------------------------------------------------------------------------
(* Slide navigation and 'New Presentation' (inline handlers) *)

\* the presentation view is shown: a session, and a presentation
DeckShown == Rendered /\ presentation # Null

\* disabled={currentSlide === 0}
PreviousDisabled(c) == c = 0

\* Math.max(0, currentSlide - 1)
PreviousTarget(c) == Max(0, c - 1)

\* disabled={currentSlide === presentation.slides.length - 1}
NextDisabled(deck, c) == c = Len(deck.slides) - 1

\* Math.min(presentation.slides.length - 1, currentSlide + 1)
NextTarget(deck, c) == Min(Len(deck.slides) - 1, c + 1)

\* the indices presentation.slides.map renders a thumbnail for (0-based)
ThumbnailIndices(deck) == 0..(Len(deck.slides) - 1)

\* variant: 'New Presentation' forgets to clear the URL and the flag
StoreAfterNew_deckOnly ==
    <<Null, presentationUrl, fallbackUsed, currentSlide>>

\* variant: 'New Presentation' also resets the cursor
StoreAfterNew_resetCursor == <<Null, Null, FALSE, 0>>

\* the cells after 'New Presentation', as
\* <<presentation, presentationUrl, fallbackUsed, currentSlide>>
StoreAfterNew == <<Null, Null, FALSE, currentSlide>>

Previous ==
    /\ DeckShown
    /\ ~PreviousDisabled(currentSlide)
    /\ currentSlide' = PreviousTarget(currentSlide)
    /\ last' = Step("previous", Null, Null, Null)
    /\ toasts' = <<>>
    /\ downloads' = <<>>
    /\ UNCHANGED <<sessionActive, isGenerating, presentation, presentationUrl,
                   fallbackUsed, formData, inflight>>

NextSlide ==
    /\ DeckShown
    /\ ~NextDisabled(presentation[1], currentSlide)
    /\ currentSlide' = NextTarget(presentation[1], currentSlide)
    /\ last' = Step("next", Null, Null, Null)
    /\ toasts' = <<>>
    /\ downloads' = <<>>
    /\ UNCHANGED <<sessionActive, isGenerating, presentation, presentationUrl,
                   fallbackUsed, formData, inflight>>

\* a click on the thumbnail of slide index
GoTo ==
    /\ DeckShown
    /\ \E index \in ThumbnailIndices(presentation[1]) :
          /\ currentSlide' = index
          /\ last' = Step("goto", index, Null, Null)
    /\ toasts' = <<>>
    /\ downloads' = <<>>
    /\ UNCHANGED <<sessionActive, isGenerating, presentation, presentationUrl,
                   fallbackUsed, formData, inflight>>

NewPresentation ==
    /\ DeckShown
    /\ presentation' = StoreAfterNew[1]
    /\ presentationUrl' = StoreAfterNew[2]
    /\ fallbackUsed' = StoreAfterNew[3]
    /\ currentSlide' = StoreAfterNew[4]
    /\ last' = Step("new", <<presentationUrl, fallbackUsed>>, Null, Null)
    /\ toasts' = <<>>
    /\ downloads' = <<>>
    /\ UNCHANGED <<sessionActive, isGenerating, formData, inflight>>

-----------------------------------------------------------------------------
(* exportPresentation *)

NL == "\n"

\* the character U+2022 (bullet)
Bullet == "U+2022"

Digit(d) == <<"0","1","2","3","4","5","6","7","8","9">>[d + 1]

\* a natural number in a template literal
RECURSIVE NatToString(_)
NatToString(n) ==
    IF n < 10 THEN <<Digit(n)>>
    ELSE NatToString(n \div 10) \o <<Digit(n % 10)>>

\* Array.prototype.join
RECURSIVE Join(_, _)
Join(strs, sep) ==
    IF strs = <<>> THEN <<>>
    ELSE IF Len(strs) = 1 THEN strs[1]
    ELSE strs[1] \o sep \o Join(Tail(strs), sep)

\* variant: the slide number is the 0-based index
SlideMarkdown_zeroBased(slide, index) ==
    <<"#","#"," ","S","l","i","d","e"," ">> \o NatToString(index)
    \o <<":"," ">> \o slide.title \o <<NL, NL>>
    \o Join([k \in 1..Len(slide.content) |->
                <<Bullet, " ">> \o slide.content[k]], <<NL>>)
    \o <<NL, NL, "-", "-", "-", NL, NL>>

\* the text of one slide; index is 0-based
SlideMarkdown(slide, index) ==
    <<"#","#"," ","S","l","i","d","e"," ">> \o NatToString(index + 1)
    \o <<":"," ">> \o slide.title \o <<NL, NL>>
    \o Join([k \in 1..Len(slide.content) |->
                <<Bullet, " ">> \o slide.content[k]], <<NL>>)
    \o <<NL, NL, "-", "-", "-", NL, NL>>

\* content of exportPresentation
ToMarkdown(deck) ==
    <<"#"," ">> \o deck.title \o <<NL, NL>>
    \o Join([k \in 1..Len(deck.slides) |->
                SlideMarkdown(deck.slides[k], k - 1)], <<>>)

\* String.prototype.replace(/\s+/g, '_')
RECURSIVE ReplaceSpaceRuns(_)
ReplaceSpaceRuns(s) ==
    IF s = <<>> THEN <<>>
    ELSE IF IsSpace(Head(s))
         THEN <<"_">> \o ReplaceSpaceRuns(TrimStart(s))
         ELSE <<Head(s)>> \o ReplaceSpaceRuns(Tail(s))

\* a.download
FileName(deck) == ReplaceSpaceRuns(deck.title) \o <<".","m","d">>

\* the Blob handed to the browser as a download
MarkdownFile(deck) ==
    [download |-> FileName(deck), content |-> ToMarkdown(deck),
     type |-> "text/markdown"]

\* variant: no early return; the template is filled from nothing and an
\* empty file is offered
ExportOutput_noEarlyReturn ==
    IF presentation = Null
    THEN [downloads |-> <<[download |-> <<".","m","d">>, content |-> <<>>,
                           type |-> "text/markdown"]>>,
          toasts |-> <<ToastSuccess(ExportedText)>>]
    ELSE [downloads |-> <<MarkdownFile(presentation[1])>>,
          toasts |-> <<ToastSuccess(ExportedText)>>]

\* what exportPresentation emits: nothing after 'if (!presentation)
\* return', else the file and the notification
ExportOutput ==
    IF presentation = Null
    THEN [downloads |-> <<>>, toasts |-> <<>>]
    ELSE [downloads |-> <<MarkdownFile(presentation[1])>>,
          toasts |-> <<ToastSuccess(ExportedText)>>]

Export ==
    /\ Rendered
    /\ last' = Step("export", Null, Null, Null)
    /\ downloads' = ExportOutput.downloads
    /\ toasts' = ExportOutput.toasts
    /\ UNCHANGED <<sessionActive, isGenerating, presentation, currentSlide,
                   presentationUrl, fallbackUsed, formData, inflight>>

-----------------------------------------------------------------------------
Next ==
    \/ SessionChange
    \/ SetTopic
    \/ SetSlideCount
    \/ Generate
    \/ FetchSettles
    \/ JsonSettles
    \/ Previous
    \/ NextSlide
    \/ GoTo
    \/ NewPresentation
    \/ Export

Spec == Init /\ [][Next]_vars

\* The form alone, with every slider position and more topics: the
\* behaviours of Spec up to the arrival of a response, before its body is
\* read.
SetTopicWide == SetTopicFrom(FormTopics)

SetSlideCountWide == SetSlideCountFrom(SliderPositions)

FormNext ==
    \/ SessionChange
    \/ SetTopicWide
    \/ SetSlideCountWide
    \/ Generate
    \/ FetchSettles

FormSpec == Init /\ [][FormNext]_vars

\* the transport delivers a response or an error for every request (at the
\* latest its own timeout), and a body read ends
LiveSpec ==
    Spec /\ WF_vars(FetchSettles) /\ WF_vars(JsonSettles)

-----------------------------------------------------------------------------
(* Properties *)

\* the step recorded in last handled a response body
BodyHandled == last.op = "json" /\ last.input.kind = "data"

\* the step recorded in last ended a call as a failure: fetch rejected,
\* response.json() rejected, or the body's status is not "success"
SettledAsFailure ==
    \/ last.op = "fetch" /\ last.input.kind = "throw"
    \/ last.op = "json" /\ last.input.kind = "throw"
    \/ BodyHandled /\ last.input.data.status # SuccessStatus

\* the step recorded in last ended a call as a success
SettledAsSuccess == BodyHandled /\ last.input.data.status = SuccessStatus

\* a presentation is stored and its slide list is not empty
HasSlides == presentation # Null /\ Len(presentation[1].slides) >= 1

\* C1: whenever a Deck with at least one slide is stored, the cursor is an
\* integer in [0, slideCount-1] (slideCount is the Deck's total_slides).
C1_CursorWithinSlideCount ==
    HasSlides => currentSlide \in 0..(presentation[1].total_slides - 1)

\* The part of C1 that does not depend on the reported count: with a
\* non-empty slide list the cursor is an index of the list.
CursorWithinSlideList ==
    HasSlides => currentSlide \in 0..(Len(presentation[1].slides) - 1)

\* C2: with a stored Deck of zero slides (slide_count 0, no slides), next()
\* and previous() are no-ops: the cursor stays at 0 and is never negative.
C2_ZeroSlideCursorStaysZero ==
    (/\ presentation # Null
     /\ presentation[1].slides = <<>>
     /\ presentation[1].total_slides = 0) => currentSlide = 0

\* C3: at most one generation request is in flight, and from the moment it
\* is issued until it settles the trigger is disabled (isGenerating).
C3_SingleInFlight ==
    /\ Len(inflight) <= 1
    /\ (inflight # <<>>) <=> isGenerating

\* C3 witness: a request is pending, its response has arrived but not its
\* body, and a user action was handled meanwhile.
C3_Witness ==
    /\ Len(inflight) = 1
    /\ inflight[1].phase = "json"
    /\ last.op \in {"session", "export"}

\* C4: a generate attempt without an active session issues no request,
\* emits the 'document required' error and changes nothing else.
C4_GateBlocks ==
    [][(~sessionActive /\ last'.op = "generate") =>
          /\ inflight' = inflight
          /\ isGenerating' = isGenerating
          /\ isGenerating' = FALSE
          /\ UNCHANGED store
          /\ formData' = formData
          /\ toasts' = <<ToastError(DocRequiredText)>>]_vars

\* C4 witness: generatePresentation has just returned at the session check,
\* with a stale cursor in the (empty) store.
C4_Witness ==
    /\ last.op = "generate"
    /\ ~sessionActive
    /\ toasts = <<ToastError(DocRequiredText)>>
    /\ inflight = <<>>
    /\ currentSlide # 0

\* C5: a call that settles as a failure leaves presentation,
\* presentationUrl, fallbackUsed and currentSlide as they were.
C5_FailureKeepsStore ==
    [][SettledAsFailure' => UNCHANGED store]_vars

\* C5 witness: an HTTP 200 response whose body has an error status and
\* carries slides and a URL has just been handled; the store is still empty
\* and the cursor still the stale one.
C5_Witness ==
    /\ BodyHandled
    /\ last.input.data.status = ErrorStatus
    /\ last.input.data.slides # Null
    /\ last.input.data.presentation_url # Null
    /\ last.http = Some(200)
    /\ presentation = Null
    /\ presentationUrl = Null
    /\ currentSlide = MaxSlides - 1

\* C6: every completion of a successful generation leaves the cursor at 0.
C6_SuccessResetsCursor == SettledAsSuccess => currentSlide = 0

\* C6 witness: the cursor was at the last index of a cleared Deck when a
\* Deck with a single slide replaced the store.
C6_Witness ==
    /\ SettledAsSuccess
    /\ last.cursor = MaxSlides - 1
    /\ HasSlides
    /\ Len(presentation[1].slides) = 1
    /\ currentSlide = 0

\* C7: for every stored Deck with at least one slide, slideCount
\* (total_slides) equals the length of the slide list.
C7_CountEqualsLength ==
    HasSlides => presentation[1].total_slides = Len(presentation[1].slides)

\* C8 as stated: whenever no Deck is stored the cursor is undefined, that is,
\* it holds no integer.
C8_CursorUndefinedWithoutDeck ==
    presentation = Null => currentSlide \notin Int

\* C8 as amended: 'New Presentation' leaves the cursor at the integer it
\* held, and with no Deck stored the cursor is still an integer.
C8_CursorKeptWithoutDeck ==
    /\ last.op = "new" => currentSlide = last.cursor
    /\ presentation = Null => currentSlide \in Int

\* C8 witness: 'New Presentation' has just cleared a Deck shown at its last
\* slide, and the cursor still holds that index.
C8_Witness ==
    /\ last.op = "new"
    /\ presentation = Null
    /\ currentSlide = MaxSlides - 1

\* the notification the claim C9 names for the step recorded in last
ExpectedKind(t) ==
    IF last.op = "generate"
    THEN t.type = "error" /\ t.message = DocRequiredText
    ELSE IF SettledAsSuccess
    THEN IF last.input.data.fallback_used = Some(TRUE)
         THEN /\ t.type = "success"
              /\ t.duration # Null
              /\ t.message = BasicModeText
         ELSE /\ t.type = "success"
              /\ t.duration = Null
              /\ t.message = GeneratedText
    ELSE t.type = "error"

\* C9: every generate call emits exactly one notification, of the kind that
\* matches its outcome; a call that has not ended has emitted none.
C9_OneNoticePerCall ==
    /\ \A i \in 1..Len(inflight) : inflight[i].notices = 0
    /\ last.call # Null =>
          /\ last.call = Some(1)
          /\ Len(toasts) = 1
          /\ ExpectedKind(toasts[1])
    /\ (last.op \in {"generate", "fetch", "json"} /\ last.call = Null) =>
          /\ toasts = <<>>
          /\ inflight # <<>>

\* C9 witness: a success with fallback_used true has just been announced by
\* the long-duration notice.
C9_Witness ==
    /\ SettledAsSuccess
    /\ last.input.data.fallback_used = Some(TRUE)
    /\ toasts = <<ToastSuccessFor(BasicModeText, BasicModeDuration)>>

\* C10: every issued generation settles and isGenerating becomes false
\* again.
C10_GeneratingEnds == isGenerating ~> ~isGenerating

\* C10 witness: a call has just ended in the catch block and the form is
\* interactive again.
C10_Witness ==
    /\ SettledAsFailure
    /\ last.input.kind = "throw"
    /\ ~isGenerating
    /\ inflight = <<>>

\* s consists of white space only (the empty string included)
IsBlank(s) == \A k \in 1..Len(s) : IsSpace(s[k])

\* t is s without the white space at its two ends
IsTrimOf(t, s) ==
    /\ t # <<>>
    /\ ~IsSpace(t[1])
    /\ ~IsSpace(t[Len(t)])
    /\ \E a, z \in 1..Len(s) :
          /\ SubSeq(s, a, z) = t
          /\ \A k \in 1..(a - 1) : IsSpace(s[k])
          /\ \A k \in (z + 1)..Len(s) : IsSpace(s[k])

\* C11: the request that is issued carries max_slides equal to the
\* configured slider value (in [3,15]), the trimmed topic when that is not
\* empty, and no topic at all when the trimmed topic is empty.
C11_RequestCarriesForm ==
    \A i \in 1..Len(inflight) :
       /\ inflight[i].body.max_slides = formData.slideCount
       /\ inflight[i].body.max_slides \in SliderMin..SliderMax
       /\ IF IsBlank(formData.topic)
          THEN inflight[i].body.topic = Null
          ELSE /\ inflight[i].body.topic # Null
               /\ IsTrimOf(inflight[i].body.topic[1], formData.topic)

\* C11 witness: topic "  " with the slider at 8 has been sent as
\* max_slides 8 with no topic.
C11_Witness ==
    /\ Len(inflight) = 1
    /\ formData = [topic |-> <<" ", " ">>, slideCount |-> 8]
    /\ inflight[1].body.topic = Null
    /\ inflight[1].body.max_slides = 8

\* an optional string of a response is given: not absent and not empty
Given(o) == o # Null /\ o[1] # <<>>

\* C12: on a success response the stored triple is built field by field:
\* title is the response title or the default title when absent (an empty
\* title counts as absent), slides is the response list or the empty
\* sequence, slideCount is the reported slide_count or 0, theme is the fixed
\* label, artifactUrl is the response presentation_url or absent,
\* usedFallback is the response flag (false when absent).
C12_StoredFieldByField ==
    SettledAsSuccess =>
       /\ presentation # Null
       /\ presentation[1].title =
             (IF Given(last.input.data.title)
              THEN last.input.data.title[1] ELSE DefaultTitle)
       /\ presentation[1].slides =
             (IF last.input.data.slides # Null
              THEN last.input.data.slides[1] ELSE <<>>)
       /\ presentation[1].total_slides =
             (IF last.input.data.slide_count # Null
              THEN last.input.data.slide_count[1] ELSE 0)
       /\ presentation[1].theme = Professional
       /\ DOMAIN presentation[1] = {"title", "slides", "total_slides", "theme"}
       /\ presentationUrl =
             (IF Given(last.input.data.presentation_url)
              THEN Some(last.input.data.presentation_url[1]) ELSE Null)
       /\ fallbackUsed = (last.input.data.fallback_used = Some(TRUE))

\* C12 witness: the body {status: "success"} and nothing else has been
\* stored with every default.
C12_Witness ==
    /\ SettledAsSuccess
    /\ last.input.data.title = Null
    /\ last.input.data.slides = Null
    /\ last.input.data.slide_count = Null
    /\ last.input.data.presentation_url = Null
    /\ last.input.data.fallback_used = Null
    /\ presentation =
          Some([title |-> DefaultTitle, slides |-> <<>>, total_slides |-> 0,
                theme |-> Professional])
    /\ presentationUrl = Null
    /\ fallbackUsed = FALSE

\* C13: on failure the notice text is the service-supplied diagnostic when
\* one is present (not absent, not empty), verbatim, and the generic text
\* only when no diagnostic is present; for a thrown error the diagnostic is
\* the error's own message.
C13_FailureText ==
    SettledAsFailure =>
       /\ Len(toasts) = 1
       /\ toasts[1].type = "error"
       /\ IF last.input.kind = "data"
          THEN IF Given(last.input.data.message)
               THEN toasts[1].message = last.input.data.message[1]
               ELSE toasts[1].message = FailedText
          ELSE IF last.input.error.message # <<>>
               THEN toasts[1].message = last.input.error.message
               ELSE toasts[1].message = FailedText

\* C13 witness: the body {status: "error", message: "quota exceeded"} has
\* surfaced "quota exceeded" and left the store empty.
C13_Witness ==
    /\ SettledAsFailure
    /\ last.input.kind = "data"
    /\ last.input.data.status = ErrorStatus
    /\ last.input.data.message = Some(QuotaExceeded)
    /\ toasts = <<ToastError(QuotaExceeded)>>
    /\ presentation = Null

\* the body handled by the step recorded in last, with fallback_used f
Twin(f) == [last.input.data EXCEPT !.fallback_used = f]

\* C14: two success responses that differ only in fallback_used give the
\* same Deck, the same artifactUrl and the same cursor; the results differ
\* only in usedFallback and in the notice, and they do differ there exactly
\* when one flag is true and the other is not.
C14_FallbackChangesOnlyFlag ==
    SettledAsSuccess =>
       \A f \in Opt(BOOLEAN) :
          /\ StoreAfterData(Twin(f))[1] = presentation
          /\ StoreAfterData(Twin(f))[2] = presentationUrl
          /\ StoreAfterData(Twin(f))[4] = currentSlide
          /\ (StoreAfterData(Twin(f))[3] = fallbackUsed)
                <=> ((f = Some(TRUE)) <=> fallbackUsed)
          /\ (<<NoticeForData(Twin(f))>> = toasts)
                <=> ((f = Some(TRUE)) <=> fallbackUsed)

\* C14 witness: a fallback success with slides and a URL has been stored;
\* its twin without the flag gives the same deck with the other notice.
C14_Witness ==
    /\ SettledAsSuccess
    /\ last.input.data.fallback_used = Some(TRUE)
    /\ fallbackUsed
    /\ HasSlides
    /\ presentationUrl # Null
    /\ StoreAfterData(Twin(Some(FALSE)))[1] = presentation
    /\ NoticeForData(Twin(Some(FALSE))) = ToastSuccess(GeneratedText)
    /\ toasts # <<ToastSuccess(GeneratedText)>>

\* x brought into [lo, hi]
Clamp(x, lo, hi) == Max(lo, Min(x, hi))

\* C15: next() moves the cursor to clamp(current+1, 0, slideCount-1) and
\* previous() to clamp(current-1, 0, slideCount-1), slideCount being the
\* Deck's total_slides (stated for Decks with at least one slide and a
\* positive slideCount).
C15_NavClampsToSlideCount ==
    (HasSlides /\ presentation[1].total_slides >= 1) =>
       /\ last.op = "next" =>
             currentSlide =
                Clamp(last.cursor + 1, 0, presentation[1].total_slides - 1)
       /\ last.op = "previous" =>
             currentSlide =
                Clamp(last.cursor - 1, 0, presentation[1].total_slides - 1)

\* The part of C15 that does not depend on the reported count: with a
\* non-empty slide list next() and previous() clamp to the slide list.
NavClampsToSlideList ==
    HasSlides =>
       /\ last.op = "next" =>
             currentSlide =
                Clamp(last.cursor + 1, 0, Len(presentation[1].slides) - 1)
       /\ last.op = "previous" =>
             currentSlide =
                Clamp(last.cursor - 1, 0, Len(presentation[1].slides) - 1)

\* the decimal numeral of n, 1 <= n <= 99
Numeral(n) ==
    LET d == <<"0","1","2","3","4","5","6","7","8","9">>
    IN  IF n <= 9 THEN <<d[n + 1]>> ELSE <<d[(n \div 10) + 1], d[(n % 10) + 1]>>

\* the lines of slide number n (1-based): the heading, a blank line, the
\* bulleted content lines (one empty line when the slide has no content: the
\* join of no lines is the empty string), a blank line, '---', a blank line
LinesOfSlide(slide, n) ==
    << <<"#","#"," ","S","l","i","d","e"," ">> \o Numeral(n) \o <<":"," ">>
          \o slide.title,
       <<>> >>
    \o (IF slide.content = <<>> THEN << <<>> >>
        ELSE [k \in 1..Len(slide.content) |->
                 <<"U+2022", " ">> \o slide.content[k]])
    \o << <<>>, <<"-","-","-">>, <<>> >>

\* the lines of the slides from number n on
RECURSIVE LinesOfSlides(_, _)
LinesOfSlides(slides, n) ==
    IF slides = <<>> THEN <<>>
    ELSE LinesOfSlide(Head(slides), n) \o LinesOfSlides(Tail(slides), n + 1)

\* the lines of the document: '# {title}', a blank line, the slides
LinesOfDeck(deck) ==
    << <<"#"," ">> \o deck.title, <<>> >> \o LinesOfSlides(deck.slides, 1)

\* the text made of lines, each ended by a line feed
RECURSIVE Unlines(_)
Unlines(lines) ==
    IF lines = <<>> THEN <<>>
    ELSE Head(lines) \o <<"\n">> \o Unlines(Tail(lines))

C17_ExportChangesNothing ==
    [][last'.op = "export" =>
          /\ UNCHANGED store
          /\ UNCHANGED <<isGenerating, inflight, formData>>
          /\ presentation = Null => (downloads' = <<>> /\ toasts' = <<>>)
          /\ presentation # Null => Len(downloads') = 1]_vars

\* C17 witness: exportPresentation has just returned without a Deck, while
\* a generation request is outstanding.
C17_Witness ==
    /\ last.op = "export"
    /\ presentation = Null
    /\ downloads = <<>>
    /\ toasts = <<>>
    /\ inflight # <<>>

\* C18: in every state with no Deck stored, artifactUrl is absent and
\* usedFallback is false.
C18_NoDeckNoUrlNoFlag ==
    presentation = Null => (presentationUrl = Null /\ fallbackUsed = FALSE)

\* C18 witness: 'New Presentation' has just cleared a Deck that had a URL
\* and the fallback flag.
C18_Witness ==
    /\ last.op = "new"
    /\ last.input[1] # Null
    /\ last.input[2] = TRUE
    /\ presentation = Null
    /\ presentationUrl = Null
    /\ fallbackUsed = FALSE

\* C19: while a generation request is outstanding no Deck is stored (the
\* presentation view with navigation, export and 'New Presentation' is not
\* shown), and a generation only starts from the empty store.
C19_NoDeckWhileGenerating ==
    /\ inflight # <<>> => (presentation = Null /\ ~DeckShown)
    /\ isGenerating => presentation = Null
    /\ last.op = "generate" => presentation = Null

\* C19 witness: a request is outstanding after an earlier Deck was
\* discarded (the cursor is still that Deck's).
C19_Witness ==
    /\ Len(inflight) = 1
    /\ isGenerating
    /\ sessionActive
    /\ presentation = Null
    /\ currentSlide = MaxSlides - 1

\* C20: the Deck changes at two kinds of step only: the completion of a
\* successful generation replaces it as a whole, 'New Presentation' sets it
\* to none; navigation changes only the cursor.
C20_DeckChangesOnlyTwice ==
    [][/\ presentation' # presentation =>
             \/ SettledAsSuccess' /\ presentation' # Null
             \/ last'.op = "new" /\ presentation' = Null
       /\ last'.op \in {"previous", "next", "goto"} =>
             UNCHANGED <<presentation, presentationUrl, fallbackUsed>>
       /\ (last'.op \in {"generate", "fetch", "export"} \/ SettledAsFailure') =>
             presentation' = presentation]_vars

\* C20 witness: a thumbnail click has just moved the cursor of a stored
\* Deck to its last slide.
C20_Witness ==
    /\ last.op = "goto"
    /\ HasSlides
    /\ currentSlide # last.cursor
    /\ currentSlide = Len(presentation[1].slides) - 1

=============================================================================
